---- MODULE Spec2Model ----
(***************************************************************************)
(* BNPL installment ledger (socertis/bnpl_simulator).                      *)
(*                                                                         *)
(* The ledger is one payment plan with its installments, as createPlan     *)
(* leaves it: the plan active, installments 1..number_of_installments      *)
(* pending, nothing due before today.  The operations are the installment  *)
(* writes of the repository with the post_save / post_delete receivers of  *)
(* apps/payments/signals.py run inside them, in the order the receivers    *)
(* are connected: update_payment_plan_status_on_save first, then           *)
(* check_overdue_on_save.                                                  *)
(*                                                                         *)
(* Dates: installment i is due on day i (due dates increase with the       *)
(* installment number), today is a day number, and due_date < today is     *)
(* i < today.                                                              *)
(*                                                                         *)
(* The store: pay_installment asks for transaction.atomic() and            *)
(* select_for_update(), so a payment is a transaction that holds a row     *)
(* lock on its installment until it ends, reads what is committed plus     *)
(* its own writes, and publishes its writes at commit.  Every other write  *)
(* runs in autocommit.                                                     *)
(***************************************************************************)
EXTENDS Integers, Sequences, FiniteSets, TLC

\* ----------------------------------------------------------------- bounds
MaxInst == 3
MaxReqs == 2
MaxPeriods == 3
MaxPrincipal == 1000
MaxChainInst == 2

InstIds == 1..MaxInst
Reqs == 1..MaxReqs

InstallmentStatus == {"pending", "paid", "late", "cancelled"}
PlanStatus == {"active", "completed", "cancelled"}
\* user_type and e-mail of request.user: the plan's customer, another
\* customer, a merchant.
Payers == {"owner", "other", "merchant"}

VARIABLES
    inst_status,            \* Installment.status per row; "deleted": no row
    paid_date,              \* Installment.paid_date is set
    plan_status,            \* PaymentPlan.status, as stored
    number_of_installments, \* PaymentPlan.number_of_installments
    today,                  \* date.today()
    held_plan,              \* status field of a PaymentPlan object a caller holds
    pc,                     \* pay_installment: position of each request
    req,                    \* pay_installment: installment_id and request.user
    loc_status,             \* installment.status of the request's instance
    loc_plan,               \* installment.payment_plan.status of the request's instance
    row_lock,               \* select_for_update: the request holding each row
    tx_status,              \* uncommitted Installment.status written by the request
    tx_plan,                \* uncommitted PaymentPlan.status written by the request
    new_status,             \* the reconciler's new_status inside the request
    resp,                   \* the Response of each request
    resp_plan,              \* its payment_plan_status field
    sweep_pc,               \* mark_all_overdue_installments: position
    sweep_count,            \* its count
    sweep_ret,              \* its return value
    last_op,                \* what the last step did (observation only)
    snap,                   \* an earlier (statuses, plan status) of the run (observation only)
    amort,                  \* calculate_amortization: arguments, locals, position, result
    creation,               \* PaymentPlanCreateSerializer: input, position, uncommitted rows
    chain,                  \* one installment save or delete, receiver by receiver
    other_plan              \* a second PaymentPlan with its one installment

ledger == <<inst_status, paid_date, plan_status, number_of_installments, today>>
request == <<pc, req, loc_status, loc_plan, row_lock, tx_status, tx_plan, new_status,
             resp, resp_plan>>
sweep == <<sweep_pc, sweep_count, sweep_ret>>
vars == <<inst_status, paid_date, plan_status, number_of_installments, today, held_plan,
          pc, req, loc_status, loc_plan, row_lock, tx_status, tx_plan, new_status,
          resp, resp_plan, sweep_pc, sweep_count, sweep_ret, last_op, snap, amort, creation,
          chain, other_plan>>

\* ------------------------------------------------------------- the ledger
\* installments.filter(status=s).count() over a status table
CountOf(st, s) == Cardinality({i \in InstIds : st[i] = s})

\* payment_plan.installments.all(): the rows that exist
Rows(st) == {i \in InstIds : st[i] # "deleted"}

\* variant: an installment due today counts as overdue
IsOverdueOrDueToday(s, i) == s = "pending" /\ i <= today

\* Installment.is_overdue, on a status and a due date
IsOverdue(s, i) == s = "pending" /\ i < today

NoOp == "none"

\* the multiset of installment statuses of a status table, as counts
StatusCounts(st) == [s \in InstallmentStatus |-> CountOf(st, s)]

NoSnap == [taken |-> FALSE, counts |-> [s \in InstallmentStatus |-> 0], plan |-> "active"]

\* ---------------------------------------------------- the status reconciler
\* variant: the plan is completed once its last-numbered installment is paid
NewStatusWhenLastPaid(cur, st, total) ==
    IF total > 0 /\ st[total] = "paid" THEN "completed" ELSE cur

\* variant: without the branch that takes a completed plan back to active
NewStatusNoReopen(cur, st, total) ==
    LET paid_count == CountOf(st, "paid")
        cancelled_count == CountOf(st, "cancelled")
        pending_count == CountOf(st, "pending")
        late_count == CountOf(st, "late")
    IN  IF paid_count = total /\ total > 0 THEN "completed"
        ELSE IF cancelled_count = total /\ total > 0 THEN "cancelled"
        ELSE IF cur = "cancelled"
                /\ (pending_count > 0 \/ late_count > 0 \/ paid_count > 0) THEN "active"
        ELSE cur

\* update_payment_plan_status_on_save, the if/elif chain: the new_status for a
\* plan object whose status field is cur, over the installment rows st
NewStatus(cur, st, total) ==
    LET paid_count == CountOf(st, "paid")
        cancelled_count == CountOf(st, "cancelled")
        pending_count == CountOf(st, "pending")
        late_count == CountOf(st, "late")
    IN  IF paid_count = total /\ total > 0 THEN "completed"
        ELSE IF cancelled_count = total /\ total > 0 THEN "cancelled"
        ELSE IF cur = "completed" /\ paid_count < total THEN "active"
        ELSE IF cur = "cancelled"
                /\ (pending_count > 0 \/ late_count > 0 \/ paid_count > 0) THEN "active"
        ELSE cur

\* "if new_status != payment_plan.status: payment_plan.save(update_fields=...)":
\* the stored status after the receiver ran on a plan object with status cur
StoredAfterReconcile(cur, st, total, stored) ==
    IF NewStatus(cur, st, total) # cur THEN NewStatus(cur, st, total) ELSE stored

\* check_overdue_on_save: the rows after the receiver ran for instance i whose
\* status field is s
CheckOverdueOnSave(st, i, s) ==
    IF IsOverdue(s, i) THEN [st EXCEPT ![i] = "late"] ELSE st

\* variant: with rows left the receiver counts them and decides
StoredAfterDeleteRecomputed(cur, st, stored) ==
    IF Rows(st) = {}
    THEN IF cur # "cancelled" THEN "active" ELSE stored
    ELSE StoredAfterReconcile(cur, st, number_of_installments, stored)

\* update_payment_plan_status_on_delete: the stored status after the receiver ran
\* on a plan object with status cur, over the remaining rows st.  With rows left
\* it saves the first of them, whose payment_plan is the same object, still
\* marked _updating_status: the post_save receiver returns at once.
StoredAfterDelete(cur, st, stored) ==
    IF Rows(st) = {}
    THEN IF cur # "cancelled" THEN "active" ELSE stored
    ELSE stored

\* the first row of payment_plan.installments (ordering: installment_number)
First(st) == CHOOSE i \in Rows(st) : \A j \in Rows(st) : i <= j

Idle(r) == pc[r] = "idle"
AllIdle == \A r \in Reqs : Idle(r)
SweepIdle == sweep_pc = "idle"
Quiet == AllIdle /\ SweepIdle
\* no transaction holds row i / has an unpublished write of the plan row: an
\* autocommit UPDATE of the row does not wait
Unlocked(i) == row_lock[i] = 0
PlanRowFree == \A r \in Reqs : tx_plan[r] = "none"

\* ----------------------------------------------------------- a second plan
\* Another plan of one installment, due later than any day of a run; its rows
\* are not among payment_plan.installments of the first plan.
NoOtherPlan == [status |-> "none", inst |-> "deleted"]
OtherCreated == [status |-> "active", inst |-> "pending"]

\* the installment rows of the second plan, as a status table
OtherRows(s) == [i \in InstIds |-> IF i = 1 THEN s ELSE "deleted"]

\* "installment.status = s; installment.save()" on the installment of the
\* second plan, with the status receiver on a freshly loaded plan object
SaveOtherInstallment(s) ==
    /\ other_plan.inst # "deleted"
    /\ other_plan' = [inst |-> s,
                      status |-> StoredAfterReconcile(other_plan.status, OtherRows(s), 1,
                                                      other_plan.status)]
    /\ last_op' = NoOp
    /\ UNCHANGED <<ledger, held_plan, request, sweep, snap, amort, creation, chain>>

\* ------------------------------------------------------ installment writes
\* The paid_date a caller saves with status s: the one the instance was loaded
\* with, or timezone.now() when it marks the installment paid
PaidDateInputs(i, s) == {paid_date[i]} \cup (IF s = "paid" THEN {TRUE} ELSE {})

\* "installment.status = s; installment.paid_date = d; installment.save()" by a
\* caller outside pay_installment (admin, tests, corrections), with both
\* post_save receivers.  held: the instance's payment_plan is the plan object
\* the caller holds; otherwise the receiver loads the plan when it reads
\* instance.payment_plan.
SaveInstallment(i, s, d, held) ==
    /\ inst_status[i] # "deleted"
    /\ Unlocked(i)
    /\ PlanRowFree
    /\ LET cur == IF held THEN held_plan ELSE plan_status
           st1 == [inst_status EXCEPT ![i] = s]
           st2 == CheckOverdueOnSave(st1, i, s)
       IN  /\ inst_status' = st2
           /\ paid_date' = [paid_date EXCEPT ![i] = d]
           /\ plan_status' = StoredAfterReconcile(cur, st1, number_of_installments, plan_status)
           /\ held_plan' = IF held THEN NewStatus(cur, st1, number_of_installments)
                           ELSE held_plan
           /\ last_op' = (IF held THEN "save_held" ELSE "save")
    /\ UNCHANGED <<number_of_installments, today, request, sweep, snap, amort, creation, chain, other_plan>>

\* installment.delete() with the post_delete receiver
DeleteInstallment(i, held) ==
    /\ Quiet
    /\ inst_status[i] # "deleted"
    /\ LET cur == IF held THEN held_plan ELSE plan_status
           st1 == [inst_status EXCEPT ![i] = "deleted"]
           \* first_installment.save(update_fields=['updated_at']): the status
           \* receiver returns at the marker, check_overdue_on_save runs
           st2 == IF Rows(st1) = {} THEN st1
                  ELSE CheckOverdueOnSave(st1, First(st1), st1[First(st1)])
       IN  /\ inst_status' = st2
           /\ paid_date' = [paid_date EXCEPT ![i] = FALSE]
           /\ plan_status' = StoredAfterDelete(cur, st1, plan_status)
           /\ held_plan' = IF held /\ Rows(st1) = {} /\ cur # "cancelled" THEN "active"
                           ELSE held_plan
           /\ last_op' = (IF held THEN "delete_held" ELSE "delete")
    /\ UNCHANGED <<number_of_installments, today, request, sweep, snap, amort, creation, chain, other_plan>>

\* trigger_payment_plan_status_update(payment_plan) on the plan object the
\* caller holds: saves the first installment with update_fields=['updated_at']
TriggerStatusUpdate ==
    /\ Quiet
    /\ Rows(inst_status) # {}
    /\ LET i == First(inst_status)
           st2 == CheckOverdueOnSave(inst_status, i, inst_status[i])
       IN  /\ inst_status' = st2
           /\ plan_status' = StoredAfterReconcile(held_plan, inst_status,
                                                  number_of_installments, plan_status)
           /\ held_plan' = NewStatus(held_plan, inst_status, number_of_installments)
           /\ last_op' = "trigger"
    /\ UNCHANGED <<paid_date, number_of_installments, today, request, sweep, snap, amort, creation, chain, other_plan>>

\* payment_plan.refresh_from_db() on the plan object the caller holds
RefreshPlan ==
    /\ Quiet
    /\ held_plan # plan_status
    /\ held_plan' = plan_status
    /\ last_op' = NoOp
    /\ UNCHANGED <<ledger, request, sweep, snap, amort, creation, chain, other_plan>>

\* date.today() moves to the next day; mark_all_overdue_installments reads the
\* date once, when it builds its filter, so the date of a running sweep is fixed
NextDay ==
    /\ SweepIdle
    /\ today <= number_of_installments
    /\ today' = today + 1
    /\ last_op' = NoOp
    /\ UNCHANGED <<inst_status, paid_date, plan_status, number_of_installments,
                   held_plan, request, sweep, snap, amort, creation, chain, other_plan>>

\* ------------------------------------------------------- pay_installment
NoReq == [id |-> 0, payer |-> "owner"]
Failures == {"only_customers", "invalid_id", "unexpected_error",
             "no_permission", "already_paid", "cancelled_installment", "inactive_plan"}

\* variant: the permission looks at the owner only
HasObjectPermissionOwnerOnly(payer, status, plan) == payer = "owner"

\* CanPayInstallment.has_object_permission
HasObjectPermission(payer, status, plan) ==
    IF payer # "owner" THEN FALSE
    ELSE IF status \notin {"pending", "late"} THEN FALSE
    ELSE IF plan # "active" THEN FALSE
    ELSE TRUE

\* pay_installment, the checks before get_object_or_404 returns: the error, or
\* "none".  Http404 is raised inside the try and caught by "except Exception".
EntryError(id, payer, st) ==
    IF payer = "merchant" THEN "only_customers"
    ELSE IF id = 0 THEN "invalid_id"
    ELSE IF st[id] = "deleted" THEN "unexpected_error"
    ELSE "none"

\* pay_installment, the checks on the instance before the transaction: the
\* error, or "none"
PayableError(payer, status, plan) ==
    IF ~HasObjectPermission(payer, status, plan) THEN "no_permission"
    ELSE IF status = "paid" THEN "already_paid"
    ELSE IF status = "cancelled" THEN "cancelled_installment"
    ELSE IF plan # "active" THEN "inactive_plan"
    ELSE "none"

\* pay_installment, "Double-check status after lock": the error, or "none"
LockedError(status) ==
    IF status = "paid" THEN "already_paid" ELSE "none"

\* variant: a plain get(), which never waits for the row
CanLockNoWait(r, i) == TRUE

\* select_for_update(): the row can be read once no other transaction holds it
CanLock(r, i) == row_lock[i] = 0

\* the installment rows a query of request r sees: what is committed, and the
\* request's own uncommitted write
Visible(r) ==
    [i \in InstIds |-> IF tx_status[r] # "none" /\ req[r].id = i THEN tx_status[r]
                       ELSE inst_status[i]]

\* the plan status a query of request r sees
VisiblePlan(r) == IF tx_plan[r] # "none" THEN tx_plan[r] ELSE plan_status

\* a request arrives
Submit(r, id, payer) ==
    /\ pc[r] = "idle"
    /\ resp[r] = "none"
    /\ pc' = [pc EXCEPT ![r] = "get"]
    /\ req' = [req EXCEPT ![r] = [id |-> id, payer |-> payer]]
    /\ last_op' = NoOp
    /\ UNCHANGED <<ledger, held_plan, loc_status, loc_plan, row_lock, tx_status, tx_plan,
                   new_status, resp, resp_plan, sweep, snap, amort, creation, chain, other_plan>>

\* user_type check, id check, get_object_or_404
GetInstallment(r) ==
    /\ pc[r] = "get"
    /\ LET e == EntryError(req[r].id, req[r].payer, inst_status)
       IN  IF e # "none"
           THEN /\ resp' = [resp EXCEPT ![r] = e]
                /\ pc' = [pc EXCEPT ![r] = "done"]
                /\ UNCHANGED loc_status
           ELSE /\ loc_status' = [loc_status EXCEPT ![r] = inst_status[req[r].id]]
                /\ pc' = [pc EXCEPT ![r] = "check"]
                /\ UNCHANGED resp
    /\ last_op' = NoOp
    /\ UNCHANGED <<ledger, held_plan, req, loc_plan, row_lock, tx_status, tx_plan,
                   new_status, resp_plan, sweep, snap, amort, creation, chain, other_plan>>

\* the permission and the status checks; installment.payment_plan is loaded here
CheckPayable(r) ==
    /\ pc[r] = "check"
    /\ loc_plan' = [loc_plan EXCEPT ![r] = plan_status]
    /\ LET e == PayableError(req[r].payer, loc_status[r], plan_status)
       IN  IF e # "none"
           THEN /\ resp' = [resp EXCEPT ![r] = e]
                /\ pc' = [pc EXCEPT ![r] = "done"]
           ELSE /\ pc' = [pc EXCEPT ![r] = "lock"]
                /\ UNCHANGED resp
    /\ last_op' = NoOp
    /\ UNCHANGED <<ledger, held_plan, req, loc_status, row_lock, tx_status, tx_plan,
                   new_status, resp_plan, sweep, snap, amort, creation, chain, other_plan>>

\* transaction.atomic(), select_for_update().get(id=...), the check under the lock.
\* A Response returned inside the block ends the transaction.
LockRow(r) ==
    /\ pc[r] = "lock"
    /\ CanLock(r, req[r].id)
    /\ loc_status' = [loc_status EXCEPT ![r] = inst_status[req[r].id]]
    /\ LET e == LockedError(inst_status[req[r].id])
       IN  IF e # "none"
           THEN /\ resp' = [resp EXCEPT ![r] = e]
                /\ pc' = [pc EXCEPT ![r] = "done"]
                /\ UNCHANGED row_lock
           ELSE /\ row_lock' = [row_lock EXCEPT ![req[r].id] = r]
                /\ pc' = [pc EXCEPT ![r] = "save"]
                /\ UNCHANGED resp
    /\ last_op' = NoOp
    /\ UNCHANGED <<ledger, held_plan, req, loc_plan, tx_status, tx_plan,
                   new_status, resp_plan, sweep, snap, amort, creation, chain, other_plan>>

\* installment.status = 'paid'; installment.paid_date = now; installment.save();
\* the status receiver loads the plan, counts and decides
SavePaid(r) ==
    /\ pc[r] = "save"
    /\ tx_status' = [tx_status EXCEPT ![r] = "paid"]
    /\ loc_plan' = [loc_plan EXCEPT ![r] = plan_status]
    /\ new_status' = [new_status EXCEPT ![r] =
            NewStatus(plan_status, [Visible(r) EXCEPT ![req[r].id] = "paid"],
                      number_of_installments)]
    /\ pc' = [pc EXCEPT ![r] = "reconcile"]
    /\ last_op' = NoOp
    /\ UNCHANGED <<ledger, held_plan, req, loc_status, row_lock, tx_plan,
                   resp, resp_plan, sweep, snap, amort, creation, chain, other_plan>>

\* "if new_status != payment_plan.status: payment_plan.save(...)", waiting for
\* any other transaction that wrote the plan row; check_overdue_on_save finds the
\* instance paid; then payment_plan.refresh_from_db()
WritePlan(r) ==
    /\ pc[r] = "reconcile"
    /\ IF new_status[r] # loc_plan[r]
       THEN /\ \A q \in Reqs \ {r} : tx_plan[q] = "none"
            /\ tx_plan' = [tx_plan EXCEPT ![r] = new_status[r]]
            /\ resp_plan' = [resp_plan EXCEPT ![r] = new_status[r]]
       ELSE /\ UNCHANGED tx_plan
            /\ resp_plan' = [resp_plan EXCEPT ![r] = plan_status]
    /\ pc' = [pc EXCEPT ![r] = "commit"]
    /\ last_op' = NoOp
    /\ UNCHANGED <<ledger, held_plan, req, loc_status, loc_plan, row_lock, tx_status,
                   new_status, resp, sweep, snap, amort, creation, chain, other_plan>>

\* variant: the save writes every open installment of the plan
CommitWritingAll(r) ==
    /\ pc[r] = "commit"
    /\ inst_status' = [i \in InstIds |->
            IF i = req[r].id \/ inst_status[i] \in {"pending", "late"} THEN tx_status[r]
            ELSE inst_status[i]]
    /\ paid_date' = [paid_date EXCEPT ![req[r].id] = TRUE]
    /\ plan_status' = IF tx_plan[r] # "none" THEN tx_plan[r] ELSE plan_status
    /\ row_lock' = [row_lock EXCEPT ![req[r].id] = 0]
    /\ tx_status' = [tx_status EXCEPT ![r] = "none"]
    /\ tx_plan' = [tx_plan EXCEPT ![r] = "none"]
    /\ resp' = [resp EXCEPT ![r] = "ok"]
    /\ pc' = [pc EXCEPT ![r] = "done"]
    /\ last_op' = "pay"
    /\ UNCHANGED <<number_of_installments, today, held_plan, req, loc_status, loc_plan,
                   new_status, resp_plan, sweep, snap, amort, creation, chain, other_plan>>

\* the atomic block ends: the writes are published, the lock is released
Commit(r) ==
    /\ pc[r] = "commit"
    /\ inst_status' = [inst_status EXCEPT ![req[r].id] = tx_status[r]]
    /\ paid_date' = [paid_date EXCEPT ![req[r].id] = TRUE]
    /\ plan_status' = IF tx_plan[r] # "none" THEN tx_plan[r] ELSE plan_status
    /\ row_lock' = [row_lock EXCEPT ![req[r].id] = 0]
    /\ tx_status' = [tx_status EXCEPT ![r] = "none"]
    /\ tx_plan' = [tx_plan EXCEPT ![r] = "none"]
    /\ resp' = [resp EXCEPT ![r] = "ok"]
    /\ pc' = [pc EXCEPT ![r] = "done"]
    /\ last_op' = "pay"
    /\ UNCHANGED <<number_of_installments, today, held_plan, req, loc_status, loc_plan,
                   new_status, resp_plan, sweep, snap, amort, creation, chain, other_plan>>

\* variant: no atomic block, the writes made before the exception stay
AbortTxnNoRollback(r) ==
    /\ pc[r] = "commit"
    /\ inst_status' = [inst_status EXCEPT ![req[r].id] = tx_status[r]]
    /\ paid_date' = [paid_date EXCEPT ![req[r].id] = TRUE]
    /\ plan_status' = IF tx_plan[r] # "none" THEN tx_plan[r] ELSE plan_status
    /\ row_lock' = [row_lock EXCEPT ![req[r].id] = 0]
    /\ tx_status' = [tx_status EXCEPT ![r] = "none"]
    /\ tx_plan' = [tx_plan EXCEPT ![r] = "none"]
    /\ resp' = [resp EXCEPT ![r] = "unexpected_error"]
    /\ resp_plan' = [resp_plan EXCEPT ![r] = "none"]
    /\ pc' = [pc EXCEPT ![r] = "done"]
    /\ last_op' = NoOp
    /\ UNCHANGED <<number_of_installments, today, held_plan, req, loc_status, loc_plan,
                   new_status, sweep, snap, amort, creation, chain, other_plan>>

\* an exception after the writes, before the atomic block ends (the save or
\* payment_plan.refresh_from_db() fails): the block rolls back, "except Exception"
\* answers 500
AbortTxn(r) ==
    /\ pc[r] = "commit"
    /\ row_lock' = [row_lock EXCEPT ![req[r].id] = 0]
    /\ tx_status' = [tx_status EXCEPT ![r] = "none"]
    /\ tx_plan' = [tx_plan EXCEPT ![r] = "none"]
    /\ resp' = [resp EXCEPT ![r] = "unexpected_error"]
    /\ resp_plan' = [resp_plan EXCEPT ![r] = "none"]
    /\ pc' = [pc EXCEPT ![r] = "done"]
    /\ last_op' = NoOp
    /\ UNCHANGED <<ledger, held_plan, req, loc_status, loc_plan, new_status, sweep, snap, amort, creation, chain, other_plan>>

\* the response is delivered; the request slot is free again
Return(r) ==
    /\ pc[r] = "done"
    /\ pc' = [pc EXCEPT ![r] = "idle"]
    /\ req' = [req EXCEPT ![r] = NoReq]
    /\ loc_status' = [loc_status EXCEPT ![r] = "none"]
    /\ loc_plan' = [loc_plan EXCEPT ![r] = "none"]
    /\ new_status' = [new_status EXCEPT ![r] = "none"]
    /\ resp' = [resp EXCEPT ![r] = "none"]
    /\ resp_plan' = [resp_plan EXCEPT ![r] = "none"]
    /\ last_op' = NoOp
    /\ UNCHANGED <<ledger, held_plan, row_lock, tx_status, tx_plan, sweep, snap, amort, creation, chain, other_plan>>

\* ------------------------------------------- mark_all_overdue_installments
\* variant: the filter without the status
OverdueAnyStatus(st) == {i \in InstIds : st[i] # "deleted" /\ i < today}

\* Installment.objects.filter(status='pending', due_date__lt=date.today())
OverduePending(st) == {i \in InstIds : st[i] = "pending" /\ i < today}

\* overdue_installments.count(); "if count == 0: return 0"
MarkCount ==
    /\ sweep_pc = "idle"
    /\ sweep_count' = OverduePending(inst_status)
    /\ IF OverduePending(inst_status) = {}
       THEN /\ sweep_ret' = 0
            /\ UNCHANGED sweep_pc
       ELSE /\ sweep_pc' = "counted"
            /\ UNCHANGED sweep_ret
    /\ last_op' = NoOp
    /\ UNCHANGED <<ledger, held_plan, request, snap, amort, creation, chain, other_plan>>

\* variant: the update writes the rows that were counted, by primary key
UpdateTargetsCounted(st) == {i \in sweep_count : st[i] # "deleted"}

\* the rows overdue_installments.update(...) writes: the queryset is evaluated
\* again, as the WHERE of the UPDATE
UpdateTargets(st) == OverduePending(st)

\* overdue_installments.update(status='late', ...): one UPDATE ... WHERE, which
\* waits for the rows it matches that a transaction holds
MarkUpdate ==
    /\ sweep_pc = "counted"
    /\ \A i \in UpdateTargets(inst_status) : Unlocked(i)
    /\ inst_status' = [i \in InstIds |->
            IF i \in UpdateTargets(inst_status) THEN "late" ELSE inst_status[i]]
    /\ sweep_ret' = Cardinality(UpdateTargets(inst_status))
    /\ sweep_pc' = "idle"
    /\ last_op' = "sweep"
    /\ UNCHANGED <<paid_date, plan_status, number_of_installments, today, held_plan,
                   request, sweep_count, snap, amort, creation, chain, other_plan>>

\* -------------------------------------------------- calculate_amortization
\* Money is in cents.  Decimal arithmetic is exact; where the code goes through
\* float, a value is the exact rational up to the float error, and rounding a
\* value that lies exactly on a half cent can go either way.
TenorTypes == {"month", "week", "day", "year"}
Rates == {0, 60, 100, 101}
Principals == {0, 1, 2, 3, 10, 100, MaxPrincipal}

\* periods_mapping
PeriodsMapping == [month |-> 12, week |-> 52, day |-> 360]

RECURSIVE GCD(_, _)
GCD(a, b) == IF b = 0 THEN a ELSE GCD(b, a % b)

RECURSIVE Pow(_, _)
Pow(x, n) == IF n = 0 THEN 1 ELSE x * Pow(x, n - 1)

\* rate = annual_rate / Decimal(100) / periods_per_year, as a reduced fraction
RateNum(annual_rate, tenor_type) ==
    annual_rate \div GCD(annual_rate, 100 * PeriodsMapping[tenor_type])
RateDen(annual_rate, tenor_type) ==
    (100 * PeriodsMapping[tenor_type]) \div GCD(annual_rate, 100 * PeriodsMapping[tenor_type])

\* quantize(Decimal('0.01'), rounding=ROUND_HALF_UP) of num/den cents
RoundHalfUp(num, den) ==
    IF num >= 0 THEN (2 * num + den) \div (2 * den)
    ELSE 0 - ((2 * (0 - num) + den) \div (2 * den))

\* num/den lies exactly on a half cent
OnHalfCent(num, den) == (2 * num) % den = 0 /\ ((2 * num) \div den) % 2 = 1

\* Decimal(str(x)).quantize(...) of a float x computed as num/den cents
QuantizeFloat(num, den) ==
    IF OnHalfCent(num, den)
    THEN {RoundHalfUp(num, den), IF num >= 0 THEN RoundHalfUp(num, den) - 1
                                 ELSE RoundHalfUp(num, den) + 1}
    ELSE {RoundHalfUp(num, den)}

\* the input validation at the head of calculate_amortization and calculate_pmt
ValidInput(principal, annual_rate, periods, tenor_type) ==
    /\ principal > 0
    /\ annual_rate >= 0 /\ annual_rate <= 100
    /\ periods > 0
    /\ tenor_type \in {"month", "week", "day"}

\* npf.pmt(rate, periods, -principal) as a fraction of cents:
\* principal * rate * (1+rate)^periods / ((1+rate)^periods - 1)
PmtNum(principal, a, b, periods) == principal * a * Pow(a + b, periods)
PmtDen(a, b, periods) == b * (Pow(a + b, periods) - Pow(b, periods))

\* the arguments whose arithmetic stays inside 32-bit integers
Representable(principal, annual_rate, periods, tenor_type) ==
    ValidInput(principal, annual_rate, periods, tenor_type) /\ annual_rate # 0 =>
        LET a == RateNum(annual_rate, tenor_type)
            b == RateDen(annual_rate, tenor_type)
        IN  b <= 100 /\ Pow(a + b, periods) <= 1000000

NoAmort == [pc |-> "none", principal |-> 0, annual_rate |-> 0, periods |-> 0,
            tenor_type |-> "month", pmt_amount |-> 0, remaining_principal |-> 0,
            period |-> 0, schedule |-> <<>>]

\* a call calculate_amortization(principal, annual_rate, periods, tenor_type)
Called(principal, annual_rate, periods, tenor_type) ==
    [NoAmort EXCEPT !.pc = "called", !.principal = principal, !.annual_rate = annual_rate,
                    !.periods = periods, !.tenor_type = tenor_type]

\* calculate_amortization up to the loop: validation, the zero-rate return, the
\* rate and calculate_pmt
EnterAmortization ==
    /\ amort.pc = "called"
    /\ IF ~ValidInput(amort.principal, amort.annual_rate, amort.periods, amort.tenor_type)
       THEN amort' = [amort EXCEPT !.pc = "raised"]
       ELSE IF amort.annual_rate = 0
       THEN LET installment == RoundHalfUp(amort.principal, amort.periods)
            IN  amort' = [amort EXCEPT
                    !.pc = "returned",
                    !.schedule = [k \in 1..amort.periods |->
                        [total |-> installment, principal |-> installment, interest |-> 0]]]
       ELSE LET a == RateNum(amort.annual_rate, amort.tenor_type)
                b == RateDen(amort.annual_rate, amort.tenor_type)
            IN  \E result \in QuantizeFloat(PmtNum(amort.principal, a, b, amort.periods),
                                            PmtDen(a, b, amort.periods)) :
                    IF result <= 0
                    THEN amort' = [amort EXCEPT !.pc = "raised"]
                    ELSE amort' = [amort EXCEPT !.pc = "loop", !.pmt_amount = result,
                                                !.remaining_principal = amort.principal,
                                                !.period = 1]
    /\ last_op' = NoOp
    /\ UNCHANGED <<ledger, held_plan, request, sweep, snap, creation, chain, other_plan>>

\* "remaining_principal < -0.01 and period < periods": the values remaining
\* can have after the check
AfterClamp(remaining, period, periods) ==
    IF period < periods /\ remaining < -1 THEN {0}
    ELSE IF period < periods /\ remaining = -1 THEN {0, -1}
    ELSE {remaining}

\* one pass of "for period in range(1, periods + 1)"
AmortizationPeriod ==
    /\ amort.pc = "loop"
    /\ LET a == RateNum(amort.annual_rate, amort.tenor_type)
           b == RateDen(amort.annual_rate, amort.tenor_type)
           last == amort.period = amort.periods
           \* interest_amount = remaining_principal * rate_float, as num/b
           interest_num == amort.remaining_principal * a
           \* principal_component_float
           principal_num == IF last THEN amort.remaining_principal * b
                            ELSE amort.pmt_amount * b - interest_num
           total_num == IF last THEN amort.remaining_principal * b + interest_num
                        ELSE amort.pmt_amount * b
       IN  \E i \in QuantizeFloat(interest_num, b), principal_component \in QuantizeFloat(principal_num, b),
              total_pmt \in QuantizeFloat(total_num, b) :
                LET interest == IF i < 0 THEN 0 ELSE i
                IN  IF principal_component <= 0
                    THEN amort' = [amort EXCEPT !.pc = "raised"]
                    ELSE \E remaining \in AfterClamp(amort.remaining_principal - principal_component,
                                                     amort.period, amort.periods) :
                            amort' = [amort EXCEPT
                                !.schedule = Append(amort.schedule,
                                    [total |-> total_pmt, principal |-> principal_component,
                                     interest |-> interest]),
                                !.remaining_principal = remaining,
                                !.period = amort.period + 1,
                                !.pc = IF last THEN "returned" ELSE "loop"]
    /\ last_op' = NoOp
    /\ UNCHANGED <<ledger, held_plan, request, sweep, snap, creation, chain, other_plan>>

\* ------------------------------------------ PaymentPlanCreateSerializer
\* Dates are day numbers.  The writes of create() are made inside
\* transaction.atomic(): they are published when the block ends and discarded
\* when an exception leaves it.
UserTypes == {"merchant", "user"}
StartDates == {1, 2, 31}

\* days_mapping
DaysMapping == [month |-> 30, week |-> 7, day |-> 1]

\* variant: the first installment falls one period after the start date
DueDateOnePeriodLater(start_date, tenor_type, i) ==
    start_date + DaysMapping[tenor_type] * (i + 1)

\* due_date = payment_plan.start_date + timedelta(days=days_per_period * i)
DueDate(start_date, tenor_type, i) == start_date + DaysMapping[tenor_type] * i

\* variant: installments numbered from 0
InstallmentNumberFromZero(i) == i

\* installment_number=i + 1
InstallmentNumber(i) == i + 1

NoCreation == [pc |-> "none", user_type |-> "merchant", total_amount |-> 0,
               interest_rate |-> 0, number_of_installments |-> 0, tenor_type |-> "month",
               start_date |-> 0, plan |-> "none", rows |-> <<>>, i |-> 0]

\* a request to create a plan
CreateCalled(user_type, total_amount, interest_rate, n, tenor_type, start_date) ==
    [NoCreation EXCEPT !.pc = "called", !.user_type = user_type,
                       !.total_amount = total_amount, !.interest_rate = interest_rate,
                       !.number_of_installments = n, !.tenor_type = tenor_type,
                       !.start_date = start_date]

\* the validate_<field> methods and the choices of tenor_type
ValidPlanData(c) ==
    /\ c.interest_rate >= 0 /\ c.interest_rate <= 100
    /\ c.total_amount > 0
    /\ c.number_of_installments >= 1 /\ c.number_of_installments <= 12
    /\ c.start_date >= today
    /\ c.tenor_type \in {"month", "week", "day"}

\* the statuses of the rows of the plan as the creating transaction sees them,
\* by installment number
RowStatuses(rows) ==
    [n \in InstIds |->
        IF \E k \in 1..Len(rows) : rows[k].installment_number = n
        THEN LET k == CHOOSE k \in 1..Len(rows) : rows[k].installment_number = n
             IN  rows[k].status
        ELSE "deleted"]

\* serializer.is_valid()
ValidatePlan ==
    /\ creation.pc = "called"
    /\ creation' = [creation EXCEPT
            !.pc = IF ValidPlanData(creation) THEN "validated" ELSE "rejected"]
    /\ last_op' = NoOp
    /\ UNCHANGED <<ledger, held_plan, request, sweep, snap, amort, chain, other_plan>>

\* create(): the merchant check, PaymentPlan.objects.create, and the call of
\* calculate_amortization in _create_installments
CreatePlanRow ==
    /\ creation.pc = "validated"
    /\ IF creation.user_type # "merchant"
       THEN /\ creation' = [creation EXCEPT !.pc = "failing"]
            /\ UNCHANGED amort
       ELSE /\ creation' = [creation EXCEPT !.pc = "amortizing", !.plan = "active"]
            /\ amort' = Called(creation.total_amount, creation.interest_rate,
                               creation.number_of_installments, creation.tenor_type)
    /\ last_op' = NoOp
    /\ UNCHANGED <<ledger, held_plan, request, sweep, snap, chain, other_plan>>

\* calculate_amortization has returned or raised; "if not amortization",
\* "if len(amortization) != payment_plan.number_of_installments"
AmortizationDone ==
    /\ creation.pc = "amortizing"
    /\ amort.pc \in {"returned", "raised"}
    /\ creation' = [creation EXCEPT
            !.pc = IF /\ amort.pc = "returned"
                      /\ Len(amort.schedule) > 0
                      /\ Len(amort.schedule) = creation.number_of_installments
                   THEN "inserting" ELSE "failing"]
    /\ last_op' = NoOp
    /\ UNCHANGED <<ledger, held_plan, request, sweep, snap, amort, chain, other_plan>>

\* one pass of "for i, (total_pmt, principal_pmt, interest_pmt) in
\* enumerate(amortization)": the check of the amounts, the due date,
\* Installment.objects.create with both post_save receivers
InsertInstallment ==
    /\ creation.pc = "inserting"
    /\ LET row == amort.schedule[creation.i + 1]
           due_date == DueDate(creation.start_date, creation.tenor_type, creation.i)
           st1 == [installment_number |-> InstallmentNumber(creation.i),
                   due_date |-> due_date, amount |-> row.total, status |-> "pending"]
           rows1 == Append(creation.rows, st1)
           new_plan == NewStatus(creation.plan, RowStatuses(rows1),
                                 creation.number_of_installments)
           st2 == IF IsOverdue("pending", due_date) THEN [st1 EXCEPT !.status = "late"]
                  ELSE st1
       IN  IF row.total <= 0 \/ row.principal <= 0 \/ row.interest < 0
           THEN creation' = [creation EXCEPT !.pc = "failing"]
           ELSE creation' = [creation EXCEPT
                    !.rows = Append(creation.rows, st2),
                    !.plan = new_plan,
                    !.i = creation.i + 1,
                    !.pc = IF creation.i + 1 = Len(amort.schedule) THEN "committing"
                           ELSE "inserting"]
    /\ last_op' = NoOp
    /\ UNCHANGED <<ledger, held_plan, request, sweep, snap, amort, chain, other_plan>>

\* Installment.objects.create raises (a database error)
InsertFails ==
    /\ creation.pc = "inserting"
    /\ creation' = [creation EXCEPT !.pc = "failing"]
    /\ last_op' = NoOp
    /\ UNCHANGED <<ledger, held_plan, request, sweep, snap, amort, chain, other_plan>>

\* variant: no atomic block, the rows written before the exception stay
AbortCreateNoRollback ==
    /\ creation.pc = "failing"
    /\ creation' = [creation EXCEPT !.pc = "failed"]
    /\ plan_status' = IF creation.plan # "none" THEN creation.plan ELSE plan_status
    /\ number_of_installments' = IF creation.plan # "none"
                                 THEN creation.number_of_installments
                                 ELSE number_of_installments
    /\ inst_status' = IF creation.plan # "none" THEN RowStatuses(creation.rows)
                      ELSE inst_status
    /\ last_op' = NoOp
    /\ UNCHANGED <<paid_date, today, held_plan, request, sweep, snap, amort, chain, other_plan>>

\* the exception leaves both atomic blocks: everything written is rolled back,
\* create() raises serializers.ValidationError
AbortCreate ==
    /\ creation.pc = "failing"
    /\ creation' = [creation EXCEPT !.pc = "failed", !.plan = "none", !.rows = <<>>]
    /\ last_op' = NoOp
    /\ UNCHANGED <<ledger, held_plan, request, sweep, snap, amort, chain, other_plan>>

\* the outer atomic block ends: the plan and its installments are published
CommitCreate ==
    /\ creation.pc = "committing"
    /\ creation' = [creation EXCEPT !.pc = "created"]
    /\ plan_status' = creation.plan
    /\ number_of_installments' = creation.number_of_installments
    /\ inst_status' = RowStatuses(creation.rows)
    /\ last_op' = NoOp
    /\ UNCHANGED <<paid_date, today, held_plan, request, sweep, snap, amort, chain, other_plan>>

\* ------------------------------------------- the receivers, one at a time
\* One installment save or delete by a caller that loaded the installment
\* earlier, followed receiver by receiver: post_save of Installment goes to
\* update_payment_plan_status_on_save and then to check_overdue_on_save (the
\* order in which signals.py connects them), post_delete to
\* update_payment_plan_status_on_delete, post_save of PaymentPlan to
\* validate_payment_plan_status.  Dispatch is synchronous: a receiver runs to
\* its end, with the receivers of its own saves inside it.
NoChain == [pc |-> "idle", op |-> "none", id |-> 0, status |-> "none", held |-> FALSE,
            obj |-> "none", marker |-> FALSE, held_marker |-> FALSE, nested |-> FALSE,
            writer |-> "none", counted |-> <<>>, reconciled |-> 0, plan_writes |-> 0,
            validated |-> 0, skipped |-> 0, raised |-> FALSE]

outside_chain == <<number_of_installments, today, request, sweep, snap, amort, creation,
                   other_plan>>

\* no save or delete is inside its receivers
ChainResting == chain.pc \in {"idle", "loaded", "done"}

\* variant: the marker is never seen
HasMarkerNever(marker) == FALSE

\* hasattr(payment_plan, '_updating_status')
HasMarker(marker) == marker

\* variant: the marker is deleted only when the block ends without an exception
MarkerAfterFinallyUnlessRaised(raised) == raised

\* "finally: if hasattr(...): delattr(payment_plan, '_updating_status')": the
\* marker after the block, left normally or by an exception
MarkerAfterFinally(raised) == FALSE

\* the receivers have returned; a plan object the caller holds keeps its attributes
Finish(c) ==
    [c EXCEPT !.pc = "done", !.nested = FALSE,
              !.held_marker = IF c.held THEN c.marker ELSE c.held_marker]

\* a caller loads installment i; held: through the plan object it holds, which
\* then is the instance's payment_plan
LoadInstallment(i, held) ==
    /\ chain.pc \in {"idle", "done"}
    /\ Quiet
    /\ inst_status[i] # "deleted"
    /\ chain' = [NoChain EXCEPT !.pc = "loaded", !.id = i, !.status = inst_status[i],
                                !.held = held, !.held_marker = chain.held_marker]
    /\ last_op' = NoOp
    /\ UNCHANGED <<ledger, held_plan, request, sweep, snap, amort, creation, other_plan>>

\* "installment.status = s; installment.paid_date = d; installment.save()" on
\* the loaded instance: the row is written, post_save is sent
SaveLoaded(s, d) ==
    /\ chain.pc = "loaded"
    /\ inst_status[chain.id] # "deleted"
    /\ inst_status' = [inst_status EXCEPT ![chain.id] = s]
    /\ paid_date' = [paid_date EXCEPT ![chain.id] = d]
    /\ chain' = [chain EXCEPT !.pc = "rec_enter", !.op = "save", !.status = s]
    /\ last_op' = NoOp
    /\ UNCHANGED <<plan_status, held_plan, outside_chain, other_plan>>

\* "installment.save(update_fields=['updated_at'])" on the loaded instance: the
\* status column is not written, the instance keeps the status it was loaded with
TouchLoaded ==
    /\ chain.pc = "loaded"
    /\ inst_status[chain.id] # "deleted"
    /\ chain' = [chain EXCEPT !.pc = "rec_enter", !.op = "touch"]
    /\ last_op' = NoOp
    /\ UNCHANGED <<inst_status, paid_date, plan_status, held_plan, outside_chain, other_plan>>

\* "installment.delete()" on the loaded instance: the row is removed,
\* post_delete is sent
DeleteLoaded ==
    /\ chain.pc = "loaded"
    /\ inst_status[chain.id] # "deleted"
    /\ inst_status' = [inst_status EXCEPT ![chain.id] = "deleted"]
    /\ paid_date' = [paid_date EXCEPT ![chain.id] = FALSE]
    /\ chain' = [chain EXCEPT !.pc = "del_enter", !.op = "delete"]
    /\ last_op' = NoOp
    /\ UNCHANGED <<plan_status, held_plan, outside_chain, other_plan>>

\* the plan object a receiver gets from instance.payment_plan: the object the
\* caller holds, or one loaded at this access; inside the delete receiver's
\* touch-save, the object that receiver marked
PlanObject ==
    IF chain.nested THEN [status |-> chain.obj, marker |-> chain.marker]
    ELSE IF chain.held THEN [status |-> held_plan, marker |-> chain.held_marker]
    ELSE [status |-> plan_status, marker |-> FALSE]

\* update_payment_plan_status_on_save up to "payment_plan._updating_status = True"
ReconcilerEnter ==
    /\ chain.pc = "rec_enter"
    /\ IF HasMarker(PlanObject.marker)
       THEN chain' = [chain EXCEPT !.pc = "overdue", !.obj = PlanObject.status,
                                   !.marker = PlanObject.marker]
       ELSE chain' = [chain EXCEPT !.pc = "rec_count", !.obj = PlanObject.status,
                                   !.marker = TRUE]
    /\ last_op' = NoOp
    /\ UNCHANGED <<ledger, held_plan, request, sweep, snap, amort, creation, other_plan>>

\* the counts, the if/elif chain, "if new_status != payment_plan.status:
\* payment_plan.status = new_status"
ReconcilerCount ==
    /\ chain.pc = "rec_count"
    /\ LET new == NewStatus(chain.obj, inst_status, number_of_installments)
       IN  /\ chain' = [chain EXCEPT
                    !.counted = inst_status,
                    !.reconciled = chain.reconciled + 1,
                    !.obj = new,
                    !.writer = "rec",
                    !.pc = IF new # chain.obj THEN "plan_save" ELSE "rec_finally"]
           /\ held_plan' = IF chain.held THEN new ELSE held_plan
    /\ last_op' = NoOp
    /\ UNCHANGED <<ledger, request, sweep, snap, amort, creation, other_plan>>

\* payment_plan.save(update_fields=['status', 'updated_at']): the row is
\* written, post_save of PaymentPlan is sent
PlanSave ==
    /\ chain.pc = "plan_save"
    /\ plan_status' = chain.obj
    /\ chain' = [chain EXCEPT !.pc = "validate", !.plan_writes = chain.plan_writes + 1]
    /\ last_op' = NoOp
    /\ UNCHANGED <<inst_status, paid_date, held_plan, outside_chain, other_plan>>

\* payment_plan.save raises (a database error): the exception leaves the try
\* block through its finally clause
PlanSaveRaises ==
    /\ chain.pc = "plan_save"
    /\ chain' = [chain EXCEPT !.raised = TRUE,
                              !.pc = IF chain.writer = "rec" THEN "rec_finally"
                                     ELSE "del_finally"]
    /\ last_op' = NoOp
    /\ UNCHANGED <<ledger, held_plan, request, sweep, snap, amort, creation, other_plan>>

\* validate_payment_plan_status: "if created or hasattr(instance,
\* '_updating_status'): return", else the checks that only log
ValidatePlanStatus ==
    /\ chain.pc = "validate"
    /\ chain' = [chain EXCEPT
            !.skipped = IF HasMarker(chain.marker) THEN chain.skipped + 1 ELSE chain.skipped,
            !.validated = IF HasMarker(chain.marker) THEN chain.validated
                          ELSE chain.validated + 1,
            !.pc = IF chain.writer = "rec" THEN "rec_finally" ELSE "del_finally"]
    /\ last_op' = NoOp
    /\ UNCHANGED <<ledger, held_plan, request, sweep, snap, amort, creation, other_plan>>

\* the finally clause and the "except Exception" of
\* update_payment_plan_status_on_save; the next receiver is check_overdue_on_save
ReconcilerFinally ==
    /\ chain.pc = "rec_finally"
    /\ chain' = [chain EXCEPT !.marker = MarkerAfterFinally(chain.raised), !.pc = "overdue"]
    /\ last_op' = NoOp
    /\ UNCHANGED <<ledger, held_plan, request, sweep, snap, amort, creation, other_plan>>

\* check_overdue_on_save on the saved instance: the caller's, with the status
\* it has in memory, or the first remaining row the delete receiver has just
\* loaded; Installment.objects.filter(id=instance.id).update(status='late')
\* sends no signal
CheckOverdue ==
    /\ chain.pc = "overdue"
    /\ LET i == IF chain.nested THEN First(inst_status) ELSE chain.id
           s == IF chain.nested THEN inst_status[i] ELSE chain.status
       IN  inst_status' = CheckOverdueOnSave(inst_status, i, s)
    /\ chain' = IF chain.nested THEN [chain EXCEPT !.pc = "del_finally"] ELSE Finish(chain)
    /\ last_op' = NoOp
    /\ UNCHANGED <<paid_date, plan_status, held_plan, outside_chain, other_plan>>

\* update_payment_plan_status_on_delete up to its save: the marker, the count
\* of the rows left, "payment_plan.status = 'active'" or the touch-save of the
\* first row left
DeleteEnter ==
    /\ chain.pc = "del_enter"
    /\ IF HasMarker(PlanObject.marker)
       THEN /\ chain' = Finish([chain EXCEPT !.obj = PlanObject.status,
                                             !.marker = PlanObject.marker])
            /\ UNCHANGED held_plan
       ELSE IF Rows(inst_status) = {}
       THEN IF PlanObject.status # "cancelled"
            THEN /\ chain' = [chain EXCEPT !.obj = "active", !.marker = TRUE,
                                           !.writer = "del", !.pc = "plan_save"]
                 /\ held_plan' = IF chain.held THEN "active" ELSE held_plan
            ELSE /\ chain' = [chain EXCEPT !.obj = PlanObject.status, !.marker = TRUE,
                                           !.pc = "del_finally"]
                 /\ UNCHANGED held_plan
       ELSE /\ chain' = [chain EXCEPT !.obj = PlanObject.status, !.marker = TRUE,
                                      !.nested = TRUE, !.pc = "rec_enter"]
            /\ UNCHANGED held_plan
    /\ last_op' = NoOp
    /\ UNCHANGED <<ledger, request, sweep, snap, amort, creation, other_plan>>

\* the finally clause and the "except Exception" of
\* update_payment_plan_status_on_delete
DeleteFinally ==
    /\ chain.pc = "del_finally"
    /\ chain' = Finish([chain EXCEPT !.marker = MarkerAfterFinally(chain.raised)])
    /\ last_op' = NoOp
    /\ UNCHANGED <<ledger, held_plan, request, sweep, snap, amort, creation, other_plan>>

\* the receivers of a save or delete that is under way
ChainStep ==
    \/ ReconcilerEnter
    \/ ReconcilerCount
    \/ PlanSave
    \/ PlanSaveRaises
    \/ ValidatePlanStatus
    \/ ReconcilerFinally
    \/ CheckOverdue
    \/ DeleteEnter
    \/ DeleteFinally

\* ------------------------------------------------------- specifications
\* The ledger as createPlan leaves it, for a plan of n installments
Created(n) ==
    /\ inst_status = [i \in InstIds |-> IF i <= n THEN "pending" ELSE "deleted"]
    /\ paid_date = [i \in InstIds |-> FALSE]
    /\ plan_status = "active"
    /\ number_of_installments = n
    /\ held_plan = "active"

NoRequests ==
    /\ pc = [r \in Reqs |-> "idle"]
    /\ req = [r \in Reqs |-> NoReq]
    /\ loc_status = [r \in Reqs |-> "none"]
    /\ loc_plan = [r \in Reqs |-> "none"]
    /\ row_lock = [i \in InstIds |-> 0]
    /\ tx_status = [r \in Reqs |-> "none"]
    /\ tx_plan = [r \in Reqs |-> "none"]
    /\ new_status = [r \in Reqs |-> "none"]
    /\ resp = [r \in Reqs |-> "none"]
    /\ resp_plan = [r \in Reqs |-> "none"]
    /\ sweep_pc = "idle"
    /\ sweep_count = {}
    /\ sweep_ret = 0
    /\ last_op = NoOp
    /\ snap = NoSnap

Init ==
    /\ \E n \in 1..MaxInst : Created(n)
    /\ today = 1
    /\ NoRequests
    /\ amort = NoAmort
    /\ creation = NoCreation
    /\ chain = NoChain
    /\ other_plan = OtherCreated

\* The callers' installment writes and the sweep, one operation at a time.
PayStep(r) ==
    \/ GetInstallment(r)
    \/ CheckPayable(r)
    \/ LockRow(r)
    \/ SavePaid(r)
    \/ WritePlan(r)
    \/ Commit(r)
    \/ AbortTxn(r)

Next ==
    \/ \E i \in InstIds, s \in InstallmentStatus, held \in BOOLEAN :
            \E d \in PaidDateInputs(i, s) : SweepIdle /\ SaveInstallment(i, s, d, held)
    \/ \E i \in InstIds, held \in BOOLEAN : DeleteInstallment(i, held)
    \/ TriggerStatusUpdate
    \/ RefreshPlan
    \/ NextDay
    \/ MarkCount
    \/ MarkUpdate

Spec == Init /\ [][Next]_vars

\* the observer records the plan as an operation left it, once
TakeSnapshot ==
    /\ ~snap.taken
    /\ last_op # NoOp
    /\ snap' = [taken |-> TRUE, counts |-> StatusCounts(inst_status), plan |-> plan_status]
    /\ UNCHANGED <<ledger, held_plan, request, sweep, last_op, amort, creation, chain, other_plan>>

\* Installment saves and deletes through freshly loaded objects, all on one day,
\* with the observer.
NextSnap ==
    \/ \E i \in InstIds, s \in InstallmentStatus :
            \E d \in PaidDateInputs(i, s) : SaveInstallment(i, s, d, FALSE)
    \/ \E i \in InstIds : DeleteInstallment(i, FALSE)
    \/ TakeSnapshot

SpecSnap == Init /\ [][NextSnap]_vars

\* calculate_amortization called once, on any arguments
InitAmort ==
    /\ Created(1)
    /\ today = 1
    /\ NoRequests
    /\ \E principal \in Principals, annual_rate \in Rates, periods \in 0..MaxPeriods,
          tenor_type \in TenorTypes :
            /\ Representable(principal, annual_rate, periods, tenor_type)
            /\ amort = Called(principal, annual_rate, periods, tenor_type)
    /\ creation = NoCreation
    /\ chain = NoChain
    /\ other_plan = OtherCreated

NextAmort ==
    \/ EnterAmortization
    \/ AmortizationPeriod

SpecAmort == InitAmort /\ [][NextAmort]_vars

\* One request to create a plan, on any input, in a ledger without plans; the
\* date does not change during the request.
InitCreate ==
    /\ inst_status = [i \in InstIds |-> "deleted"]
    /\ paid_date = [i \in InstIds |-> FALSE]
    /\ plan_status = "none"
    /\ number_of_installments = 0
    /\ held_plan = "none"
    /\ today \in {1, 2}
    /\ chain = NoChain
    /\ other_plan = NoOtherPlan
    /\ NoRequests
    /\ amort = NoAmort
    /\ \E user_type \in UserTypes, total_amount \in Principals, interest_rate \in Rates,
          n \in 0..MaxInst, tenor_type \in TenorTypes, start_date \in StartDates :
            /\ Representable(total_amount, interest_rate, n, tenor_type)
            /\ creation = CreateCalled(user_type, total_amount, interest_rate, n,
                                       tenor_type, start_date)

NextCreate ==
    \/ ValidatePlan
    \/ CreatePlanRow
    \/ EnterAmortization
    \/ AmortizationPeriod
    \/ AmortizationDone
    \/ InsertInstallment
    \/ InsertFails
    \/ AbortCreate
    \/ CommitCreate

SpecCreate == InitCreate /\ [][NextCreate]_vars

\* Installment saves by callers that never write the status late themselves,
\* through loaded and held plan objects, over several days.
NextOverdue ==
    \/ \E i \in InstIds, s \in InstallmentStatus \ {"late"}, held \in BOOLEAN :
            \E d \in PaidDateInputs(i, s) : SaveInstallment(i, s, d, held)
    \/ TriggerStatusUpdate
    \/ NextDay

SpecOverdue == Init /\ [][NextOverdue]_vars

\* pay_installment requests one at a time, each from its arrival to its
\* response, between administrative cancellations, sweeps and day changes.
NextPay ==
    \/ \E id \in 0..MaxInst, payer \in Payers : SweepIdle /\ Submit(1, id, payer)
    \/ PayStep(1)
    \/ Return(1)
    \/ \E i \in InstIds : Quiet /\ SaveInstallment(i, "cancelled", paid_date[i], FALSE)
    \/ NextDay
    \/ (AllIdle /\ MarkCount)
    \/ MarkUpdate

SpecPay == Init /\ [][NextPay]_vars

\* Concurrent requests: the ledger some days after createPlan, requests arriving
\* at any time, each one once, with the sweep running beside them; installments
\* cancelled by an administrator before the requests arrive.
InitConc ==
    /\ \E n \in 1..MaxInst : Created(n) /\ today \in 1..(n + 1)
    /\ NoRequests
    /\ amort = NoAmort
    /\ creation = NoCreation
    /\ chain = NoChain
    /\ other_plan = OtherCreated

NextConc ==
    \/ \E r \in Reqs, id \in 0..MaxInst, payer \in Payers : Submit(r, id, payer)
    \/ \E r \in Reqs : PayStep(r)
    \/ \E i \in InstIds : Quiet /\ SaveInstallment(i, "cancelled", paid_date[i], FALSE)
    \/ MarkCount
    \/ MarkUpdate

SpecConc == InitConc /\ [][NextConc]_vars

\* Saves and deletes of loaded installments, receiver by receiver, with other
\* callers' payments and cancellations between the load and the write, and
\* days passing.
NextChain ==
    \/ \E i \in InstIds, held \in BOOLEAN : LoadInstallment(i, held)
    \/ (chain.pc = "loaded" /\ \E s \in InstallmentStatus : SaveLoaded(s, paid_date[chain.id]))
    \/ TouchLoaded
    \/ DeleteLoaded
    \/ ChainStep
    \/ \E i \in InstIds : chain.pc = "loaded" /\ SaveInstallment(i, "paid", TRUE, FALSE)
    \/ \E i \in InstIds : chain.pc = "loaded" /\ SaveInstallment(i, "cancelled", paid_date[i], FALSE)
    \/ (ChainResting /\ NextDay)

InitChain ==
    /\ \E n \in 1..MaxChainInst : Created(n)
    /\ today = 1
    /\ NoRequests
    /\ amort = NoAmort
    /\ creation = NoCreation
    /\ chain = NoChain
    /\ other_plan = OtherCreated

SpecChain == InitChain /\ [][NextChain]_vars

\* a receiver that has started runs on: dispatch is a chain of function calls
SpecChainLive == SpecChain /\ WF_vars(ChainStep)

\* pay_installment requests one at a time, with saves of the second plan's
\* installment at any point of a request.
NextFrame ==
    \/ NextPay
    \/ \E s \in InstallmentStatus : SaveOtherInstallment(s)

SpecFrame == Init /\ [][NextFrame]_vars

\* One pay_installment request with an administrator cancelling installments
\* beside it, at any point of the request at which the row is not locked.
NextRace ==
    \/ \E id \in 0..MaxInst, payer \in Payers : Submit(1, id, payer)
    \/ PayStep(1)
    \/ \E i \in InstIds : SaveInstallment(i, "cancelled", paid_date[i], FALSE)

SpecRace == InitConc /\ [][NextRace]_vars

\* ---------------------------------------------------------------- claims
AllPaid == \A i \in InstIds : i <= number_of_installments => inst_status[i] = "paid"
NoneInFlight == \A r \in Reqs : pc[r] \in {"idle", "done"}

RequestsOn(i) == {r \in Reqs : req[r].id = i}

\* C2: of the pay_installment calls racing for one installment, at most one
\* sets it to paid and answers success; once all of them have answered, those
\* that got as far as the row lock hold exactly one success, the others are
\* rejected as already paid, and a rejected call has written nothing.
C2_PaidAtMostOnce ==
    \A i \in InstIds :
        LET ok == {r \in RequestsOn(i) : resp[r] = "ok"}
            writers == {r \in RequestsOn(i) : tx_status[r] = "paid"}
            locked == {r \in RequestsOn(i) : resp[r] \in {"ok", "already_paid"}}
        IN  /\ Cardinality(ok) <= 1
            /\ Cardinality(writers) <= 1
            /\ ok # {} => writers = {}
            /\ ((\A r \in RequestsOn(i) : pc[r] = "done") /\ locked # {})
                    => Cardinality(ok) = 1
            /\ \A r \in RequestsOn(i) : resp[r] = "already_paid" =>
                    /\ tx_status[r] = "none"
                    /\ tx_plan[r] = "none"
                    /\ row_lock[i] # r
                    /\ inst_status[i] = "paid"

\* two calls on one installment, one answered success, the other already paid
C2_Witness ==
    \E r, q \in Reqs :
        /\ r # q
        /\ req[r].id = req[q].id
        /\ resp[r] = "ok"
        /\ resp[q] = "already_paid"

\* C7: the update of mark_all_overdue_installments changes only rows that are
\* pending and overdue when it writes; a row that is paid, whether it was paid
\* before the count or between the count and the update, stays paid.
C7_SweepKeepsPaid ==
    [][(sweep_pc = "counted" /\ sweep_pc' = "idle") =>
            \A i \in InstIds :
                /\ inst_status[i] = "paid" => inst_status'[i] = "paid"
                /\ inst_status'[i] # inst_status[i] =>
                        (inst_status[i] = "pending" /\ i < today /\ inst_status'[i] = "late")]_vars

\* the sweep has written, and a row it had counted was paid in between
C7_Witness ==
    /\ last_op = "sweep"
    /\ \E i \in sweep_count : inst_status[i] = "paid"

\* C8: no step of a pay_installment call other than the commit of a successful
\* one changes the ledger, and a call that answers with a failure leaves none of
\* its writes behind: installment statuses, paid dates and the plan status are
\* what they were.
C8_FailedPayChangesNothing ==
    [][\A r \in Reqs :
            /\ (resp[r] = "none" /\ resp'[r] \in Failures) =>
                    /\ UNCHANGED ledger
                    /\ tx_status'[r] = "none"
                    /\ tx_plan'[r] = "none"
                    /\ \A i \in InstIds : row_lock'[i] # r
            /\ (pc'[r] # pc[r] /\ resp'[r] # "ok") => UNCHANGED ledger]_vars

\* a call was rejected as already paid by the check under the row lock; the
\* installment is as the other call left it
C8_Witness ==
    \E r \in Reqs :
        /\ pc[r] = "done"
        /\ resp[r] = "already_paid"
        /\ tx_status[r] = "none"
        /\ inst_status[req[r].id] = "paid"
        /\ paid_date[req[r].id]

\* the decision table, first matching row, on the counts of a status table
DecisionTable(cur, st, N) ==
    LET paid == CountOf(st, "paid")
        cancelled == CountOf(st, "cancelled")
        pending == CountOf(st, "pending")
        late == CountOf(st, "late")
    IN  CASE paid = N /\ N > 0 -> "completed"
          [] ~(paid = N /\ N > 0) /\ cancelled = N /\ N > 0 -> "cancelled"
          [] ~(paid = N /\ N > 0) /\ ~(cancelled = N /\ N > 0)
                /\ cur = "completed" /\ paid < N -> "active"
          [] ~(paid = N /\ N > 0) /\ ~(cancelled = N /\ N > 0)
                /\ ~(cur = "completed" /\ paid < N)
                /\ cur = "cancelled" /\ (pending > 0 \/ late > 0 \/ paid > 0) -> "active"
          [] OTHER -> cur

\* the step is an installment save that ran the reconciler
SaveStep == last_op' \in {"save", "save_held", "trigger"}
\* the status field of the plan object that save's reconciler reads
ReconcilerCur == IF last_op' = "save" THEN plan_status ELSE held_plan

\* C4: after every installment save the reconciler has written the first
\* matching row of the decision table, taken on the status of the plan object
\* it reads and on the counts of the stored installments; when the table gives
\* that same status nothing is written and the stored status is unchanged.
C4_ReconcilerFollowsTable ==
    [][SaveStep =>
            LET t == DecisionTable(ReconcilerCur, inst_status', number_of_installments)
            IN  plan_status' = IF t # ReconcilerCur THEN t ELSE plan_status]_vars

\* a save left every installment cancelled and the plan cancelled (row 2), and
\* the saved plan had not been cancelled by an earlier save of the same rows
C4_Witness ==
    /\ last_op = "save"
    /\ plan_status = "cancelled"
    /\ number_of_installments = 2
    /\ CountOf(inst_status, "cancelled") = 2

\* C5: saving an installment of a completed, fully paid plan with its status
\* set back to pending leaves the stored plan status active.
C5_ReopenedWhenUnpaid ==
    [][(/\ plan_status = "completed"
        /\ AllPaid
        /\ last_op' \in {"save", "save_held"}
        /\ \E i \in InstIds : inst_status[i] = "paid" /\ inst_status'[i] \in {"pending", "late"})
            => plan_status' = "active"]_vars

\* C3: two states of the plan, each left by an installment save or delete, that
\* have the same multiset of installment statuses have the same plan status
\* (stated here for the states in which the plan still has an installment).
C3_StatusFunctionOfMultiset ==
    (/\ snap.taken
     /\ Rows(inst_status) # {}
     /\ StatusCounts(inst_status) = snap.counts) => plan_status = snap.plan

\* request r was rolled back after its writes
RolledBack(r) == resp[r] = "unexpected_error" /\ new_status[r] # "none"

\* C6: payments made one after another are accepted whenever the installment is
\* pending or late and the plan active, whatever the order of the installment
\* numbers; after each accepted payment the plan is completed if every
\* installment is paid and active otherwise, and the response carries that
\* status; the plan is completed exactly when all installments are paid.
C6_OrderIndependent ==
    /\ plan_status = "completed" <=> AllPaid
    /\ \A r \in Reqs :
        /\ resp[r] = "ok" =>
                /\ resp_plan[r] = plan_status
                /\ plan_status = (IF AllPaid THEN "completed" ELSE "active")
        /\ (/\ pc[r] = "done"
            /\ req[r].payer = "owner"
            /\ req[r].id \in InstIds
            /\ inst_status[req[r].id] \in {"pending", "late"}
            /\ plan_status = "active") => RolledBack(r)

\* three installments paid, the first-numbered one last, and the plan completed
C6_Witness ==
    /\ number_of_installments = 3
    /\ AllPaid
    /\ plan_status = "completed"
    /\ resp[1] = "ok"
    /\ req[1].id = 1

\* request r is answered in this step, other than by a rollback
Answers(r) ==
    /\ resp[r] = "none"
    /\ resp'[r] # "none"
    /\ ~(pc[r] = "commit" /\ resp'[r] = "unexpected_error")

\* the error the stated order of preconditions gives: exists, authorized,
\* status pending or late, plan active
StatedError(id, payer, st, plan) ==
    IF st[id] = "deleted" THEN "not_found"
    ELSE IF payer # "owner" THEN "forbidden"
    ELSE IF st[id] \notin {"pending", "late"} THEN "already_paid"
    ELSE IF plan # "active" THEN "invalid_state"
    ELSE "none"

\* the kind of error of a response
ErrorKind(e) ==
    CASE e \in {"only_customers", "no_permission"} -> "forbidden"
      [] e = "already_paid" -> "already_paid"
      [] e \in {"cancelled_installment", "inactive_plan"} -> "invalid_state"
      [] e = "not_found" -> "not_found"
      [] e = "invalid_id" -> "bad_request"
      [] e = "unexpected_error" -> "server_error"
      [] OTHER -> "none"

OrderedAnswer(id, payer, st, plan) ==
    IF payer = "merchant" THEN "only_customers"
    ELSE IF id = 0 THEN "invalid_id"
    ELSE IF st[id] = "deleted" THEN "unexpected_error"
    ELSE IF payer # "owner" \/ st[id] \notin {"pending", "late"} \/ plan # "active"
         THEN "no_permission"
    ELSE "ok"

RECURSIVE SumPrincipal(_)
SumPrincipal(schedule) ==
    IF schedule = <<>> THEN 0
    ELSE schedule[1].principal + SumPrincipal(Tail(schedule))

\* C10: the principal components of a returned schedule add up to the principal
\* exactly, and the last row's principal component is the principal less the
\* sum of the earlier rows' principal components.
C10_PrincipalSumExact ==
    amort.pc = "returned" =>
        /\ SumPrincipal(amort.schedule) = amort.principal
        /\ amort.schedule[amort.periods].principal =
                amort.principal - SumPrincipal(SubSeq(amort.schedule, 1, amort.periods - 1))

\* C11: a schedule returned for annual rate 0 has interest 0 and total equal to
\* the principal component in every row, the rows before the last carry one
\* common share, and the last row carries what is left of the principal, so it
\* absorbs the rounding (1000.00 over 3: 333.33, 333.33, 333.34).
C11_ZeroRateLastAbsorbs ==
    (amort.pc = "returned" /\ amort.annual_rate = 0) =>
        /\ \A k \in 1..amort.periods :
                /\ amort.schedule[k].interest = 0
                /\ amort.schedule[k].total = amort.schedule[k].principal
        /\ \A k \in 1..(amort.periods - 1) :
                amort.schedule[k].principal = amort.schedule[1].principal
        /\ amort.schedule[amort.periods].principal =
                amort.principal - SumPrincipal(SubSeq(amort.schedule, 1, amort.periods - 1))

\* the balance before row k of the schedule
BalanceBefore(k) == amort.principal - SumPrincipal(SubSeq(amort.schedule, 1, k - 1))

\* row k of a schedule for a non-zero rate holds the half-up roundings of its
\* three unrounded values
RoundedHalfUp(k) ==
    LET a == RateNum(amort.annual_rate, amort.tenor_type)
        b == RateDen(amort.annual_rate, amort.tenor_type)
        last == k = amort.periods
        interest_num == BalanceBefore(k) * a
    IN  /\ amort.schedule[k].interest = RoundHalfUp(interest_num, b)
        /\ amort.schedule[k].principal =
                RoundHalfUp(IF last THEN BalanceBefore(k) * b
                            ELSE amort.pmt_amount * b - interest_num, b)
        /\ amort.schedule[k].total =
                RoundHalfUp(IF last THEN BalanceBefore(k) * b + interest_num
                            ELSE amort.pmt_amount * b, b)

\* C12: in every row of a returned schedule whose three values are rounded half
\* up, the total is the principal component plus the interest component; this
\* includes rows whose unrounded interest lies exactly on a half cent and the
\* last row.
C12_RowTotalIsSum ==
    amort.pc = "returned" =>
        \A k \in 1..Len(amort.schedule) :
            (amort.annual_rate = 0 \/ RoundedHalfUp(k)) =>
                amort.schedule[k].total = amort.schedule[k].principal + amort.schedule[k].interest

\* the ledger holds no plan and no installment
NoPlan ==
    /\ plan_status = "none"
    /\ number_of_installments = 0
    /\ Rows(inst_status) = {}

\* C13: after a successful creation with installment count N the ledger holds
\* the plan with status active and N installments, numbered 1..N without gap
\* or repetition, each pending; the reconciler has run for every insert.
C13_CreatedPlanShape ==
    creation.pc = "created" =>
        LET N == creation.number_of_installments
        IN  /\ plan_status = "active"
            /\ number_of_installments = N
            /\ Len(creation.rows) = N
            /\ {creation.rows[k].installment_number : k \in 1..N} = 1..N
            /\ \A k \in 1..N : creation.rows[k].status = "pending"
            /\ \A n \in InstIds : inst_status[n] = (IF n <= N THEN "pending" ELSE "deleted")

\* a plan of three installments was created
C13_Witness ==
    /\ creation.pc = "created"
    /\ creation.number_of_installments = 3
    /\ Cardinality(Rows(inst_status)) = 3

\* C14: a creation that fails, at validation, in the amortization or at an
\* insert, leaves no plan and no installment, and at no time does the ledger
\* show a plan with fewer installments than its count.
C14_CreateAtomic ==
    /\ creation.pc \in {"rejected", "failed"} => NoPlan
    /\ creation.pc = "failed" => (creation.plan = "none" /\ creation.rows = <<>>)
    /\ ~NoPlan => (/\ creation.pc = "created"
                   /\ Cardinality(Rows(inst_status)) = number_of_installments)

\* a creation failed after it had inserted an installment, and nothing is left
C14_Witness ==
    /\ creation.pc = "failed"
    /\ creation.i >= 1
    /\ NoPlan

\* the days of the months of the year in which day 1 lies
MonthDays == <<31, 28, 31, 30, 31, 30, 31, 31, 30, 31, 30, 31>>

RECURSIVE MonthOf(_, _)
\* the month of day number d, counting from month m whose first day is d = 1
MonthOf(d, m) == IF d <= MonthDays[m] THEN m ELSE MonthOf(d - MonthDays[m], m + 1)

RECURSIVE DayOf(_, _)
DayOf(d, m) == IF d <= MonthDays[m] THEN d ELSE DayOf(d - MonthDays[m], m + 1)

RECURSIVE FirstOfMonth(_)
\* the day number of the first day of month m
FirstOfMonth(m) == IF m = 1 THEN 1 ELSE FirstOfMonth(m - 1) + MonthDays[m - 1]

\* the date k calendar months after day number d, the day of the month kept,
\* or the last day of a shorter month
AddMonths(d, k) ==
    LET m == MonthOf(d, 1) + k
        day == DayOf(d, 1)
    IN  FirstOfMonth(m) + (IF day <= MonthDays[m] THEN day ELSE MonthDays[m]) - 1

\* C19: the installments of a plan created with monthly cadence are due one
\* calendar month apart, starting on the start date (2025-01-01, 2025-02-01,
\* 2025-03-01 for a start on 2025-01-01).
C19_MonthlyDueDates ==
    (creation.pc = "created" /\ creation.tenor_type = "month") =>
        \A k \in 1..Len(creation.rows) :
            creation.rows[k].due_date = AddMonths(creation.start_date, k - 1)

\* C20: in a created plan installment 1 is due on the start date, and from one
\* installment number to the next the due date grows by one and the same
\* positive step, for every cadence.
C20_DueDatesRegular ==
    creation.pc = "created" =>
        /\ \A k \in 1..Len(creation.rows) :
                creation.rows[k].installment_number = 1 =>
                    creation.rows[k].due_date = creation.start_date
        /\ \E step \in 1..31 :
                \A k, l \in 1..Len(creation.rows) :
                    creation.rows[l].installment_number = creation.rows[k].installment_number + 1
                        => creation.rows[l].due_date = creation.rows[k].due_date + step

\* a weekly plan of three installments was created
C20_Witness ==
    /\ creation.pc = "created"
    /\ creation.tenor_type = "week"
    /\ Len(creation.rows) = 3

\* C15: a delete that leaves at least one installment recomputes the plan
\* status: afterwards the stored status is the decision table on the stored
\* status and the counts of the remaining installments.
C15_DeleteRecomputes ==
    [][(/\ Cardinality(Rows(inst_status')) < Cardinality(Rows(inst_status))
        /\ Rows(inst_status') # {})
            => plan_status' = DecisionTable(plan_status, inst_status', number_of_installments)]_vars

\* C16: the update of the sweep turns into late exactly the rows that are
\* pending and due before today, changes nothing else and returns the number of
\* rows it changed; a call right after a sweep finds nothing, returns 0 and
\* changes nothing.
C16_SweepExactAndIdempotent ==
    [][/\ (sweep_pc = "counted" /\ sweep_pc' = "idle") =>
            /\ \A i \in InstIds :
                    inst_status'[i] = (IF inst_status[i] = "pending" /\ i < today
                                       THEN "late" ELSE inst_status[i])
            /\ sweep_ret' = Cardinality({i \in InstIds : inst_status'[i] # inst_status[i]})
            /\ UNCHANGED <<paid_date, plan_status, number_of_installments>>
       /\ (last_op = "sweep" /\ MarkCount) =>
            /\ sweep_ret' = 0
            /\ sweep_pc' = "idle"
            /\ UNCHANGED ledger]_vars

\* a sweep changed two rows and left a pending row that is not yet overdue
C16_Witness ==
    /\ last_op = "sweep"
    /\ sweep_ret = 2
    /\ CountOf(inst_status, "late") >= 2
    /\ \E i \in InstIds : inst_status[i] = "pending" /\ i >= today

\* C17: a save of installment i with status pending leaves the row late when
\* its due date lies before today and pending otherwise, and touches no other
\* row.
C17_OverdueOnSave ==
    [][\A i \in InstIds, s \in InstallmentStatus, d \in BOOLEAN, held \in BOOLEAN :
            (SaveInstallment(i, s, d, held) /\ s = "pending") =>
                /\ inst_status'[i] = (IF i < today THEN "late" ELSE "pending")
                /\ \A j \in InstIds \ {i} : inst_status'[j] = inst_status[j]]_vars

\* a row is late although no caller ever wrote late, and another row, due
\* today or later, was saved and is pending
C17_Witness ==
    /\ \E i \in InstIds : inst_status[i] = "late" /\ i < today
    /\ \E j \in InstIds : inst_status[j] = "pending" /\ j >= today /\ paid_date[j]

\* C18: an installment has a paid timestamp exactly when its status is paid.
C18_PaidDateIffPaid ==
    \A i \in Rows(inst_status) : paid_date[i] <=> inst_status[i] = "paid"

\* C21: every row of a returned schedule has a principal component above 0 and
\* an interest component of at least 0, for zero and non-zero rates; an input
\* that would give another row ends in an error.
C21_RowsPositive ==
    amort.pc = "returned" =>
        \A k \in 1..Len(amort.schedule) :
            amort.schedule[k].principal > 0 /\ amort.schedule[k].interest >= 0

\* the step deletes an installment and leaves at least one
DeleteLeavingRows ==
    /\ Cardinality(Rows(inst_status')) < Cardinality(Rows(inst_status))
    /\ Rows(inst_status') # {}

C27_LastDeleteForcesActive ==
    [][(Rows(inst_status) # {} /\ Rows(inst_status') = {})
            => plan_status' = (IF plan_status = "cancelled" THEN "cancelled" ELSE "active")]_vars

\* C29: after an installment save through a plan object the caller holds, the
\* stored plan status is the decision table on the plan status that was stored
\* and on the stored installment counts, also when the held copy is out of date.
C29_DecidesOnStoredStatus ==
    [][last_op' \in {"save_held", "trigger"} =>
            plan_status' = DecisionTable(plan_status, inst_status', number_of_installments)]_vars

\* C23: a request goes on from the row lock to its write only when the row it
\* read under the lock is pending or late and the plan is active, whatever was
\* committed since its first checks; no step turns a cancelled installment
\* into a paid one.
C23_PayableCheckedUnderLock ==
    [][/\ \A r \in Reqs : (pc[r] = "lock" /\ pc'[r] = "save") =>
                /\ inst_status[req[r].id] \in {"pending", "late"}
                /\ plan_status = "active"
       /\ \A i \in InstIds : inst_status[i] = "cancelled" => inst_status'[i] # "paid"]_vars

\* C24: when the receivers of an installment save have run, the statuses the
\* reconciler counted are the stored statuses as the overdue check left them:
\* the reconciler ran after the pending-to-late flip of that save.
C24_DetectorBeforeReconciler ==
    (chain.pc = "done" /\ chain.op \in {"save", "touch"} /\ chain.reconciled > 0)
        => chain.counted = inst_status

\* C25: one installment save or delete writes the plan status at most once and
\* runs the reconciler's body at most once; every plan write is skipped by the
\* advisory check of validate_payment_plan_status, which never runs its body;
\* and the receivers started by the save or delete finish.
C25_ReconcilesOnceAndEnds ==
    /\ [](/\ chain.plan_writes <= 1
          /\ chain.reconciled <= 1
          /\ chain.validated = 0
          /\ chain.pc # "validate" => chain.skipped = chain.plan_writes)
    /\ (~ChainResting ~> chain.pc = "done")

\* a save went through the reconciler, wrote the plan status once and was
\* skipped by the advisory check
C25_Witness ==
    /\ chain.pc = "done"
    /\ chain.op = "save"
    /\ chain.reconciled = 1
    /\ chain.plan_writes = 1
    /\ chain.skipped = 1

\* C26: whenever no save or delete is inside its receivers the marker is
\* absent from the plan object, also on one the caller keeps and also after
\* the plan write raised; every installment save that has run its receivers
\* was reconciled.
C26_MarkerCleared ==
    /\ ChainResting => (~chain.marker /\ ~chain.held_marker)
    /\ (chain.pc = "done" /\ chain.op \in {"save", "touch"}) => chain.reconciled = 1

\* the plan write of a save through a held plan object raised, and the object
\* carries no marker
C26_Witness ==
    /\ chain.pc = "done"
    /\ chain.op = "save"
    /\ chain.held
    /\ chain.raised
    /\ ~chain.held_marker

\* C30: the overdue check of a save never changes a stored status that is paid
\* or cancelled, also when the saved instance was loaded as pending before the
\* row was paid.
C30_OverdueCheckKeepsPaid ==
    [][chain.pc = "overdue" =>
            \A i \in InstIds :
                inst_status[i] \in {"paid", "cancelled"} => inst_status'[i] = inst_status[i]]_vars

\* C28: the step in which a payment succeeds sets the status of the paid
\* installment to paid and its paid timestamp, leaves the status and the paid
\* timestamp of every other installment of the plan and the plan's installment
\* count as they were, leaves the plan status as it was or as the decision
\* table gives it, and leaves the second plan and its installment untouched.
C28_PayTouchesOnlyItsRow ==
    [][\A r \in Reqs : (resp[r] = "none" /\ resp'[r] = "ok") =>
            /\ inst_status'[req[r].id] = "paid"
            /\ paid_date'[req[r].id]
            /\ \A j \in InstIds \ {req[r].id} :
                    inst_status'[j] = inst_status[j] /\ paid_date'[j] = paid_date[j]
            /\ number_of_installments' = number_of_installments
            /\ plan_status' \in {plan_status,
                                 DecisionTable(plan_status, inst_status', number_of_installments)}
            /\ other_plan' = other_plan]_vars

\* a payment succeeded in a plan that keeps an open installment, beside a
\* second plan whose installment was cancelled
C28_Witness ==
    \E r \in Reqs :
        /\ pc[r] = "done"
        /\ resp[r] = "ok"
        /\ \E j \in InstIds \ {req[r].id} : inst_status[j] \in {"pending", "late"}
        /\ plan_status = "active"
        /\ other_plan = [status |-> "cancelled", inst |-> "cancelled"]

====
